---- MODULE Spec2Model ----
(***************************************************************************)
(* TikTok live watcher: the Session Monitor (main.py), the Status Prober   *)
(* (checkers/tiktok_checker.py) and the Recording Controller               *)
(* (recorders/stream_recorder.py), with the shutdown signal of             *)
(* setup_signal_handlers as the one asynchronous event.                    *)
(*                                                                         *)
(* Python values are kept as the strings "True", "False" and "None".      *)
(* is_user_live returns None for an exhausted probe, and last_status is    *)
(* None before the first poll: the code has one value for both.            *)
(***************************************************************************)
EXTENDS Naturals, Sequences, FiniteSets

\* Number of capture processes the model lets the program spawn.
MaxProcs == 2

\* Number of completed polls the history window remembers.
HistLen == 3

\* Number of monitoring sessions the model lets one process run.
MaxSessions == 2

\* ------------------------------------------------------------------------
\* Values

Pids == 1..MaxProcs

\* self.active_process = None
NoProc == 0

PyStatus == {"True", "False", "None"}

\* range(3) in is_user_live
Attempts == 3

\* LiveStatus as the log lines of monitor_user name it.
StatusOf(py) ==
    IF py = "True" THEN "LIVE" ELSE IF py = "False" THEN "OFFLINE" ELSE "UNKNOWN"

\* A capture process for which poll() is None: "hung" is one that does not
\* end within the 5 seconds of wait(timeout=5) after terminate().
Alive == {"running", "hung"}

\* A capture process for which poll() is not None: "failed" has a failure
\* marker in its diagnostic output, "garbled" has diagnostic output that
\* communicate() (text=True) cannot decode, so that communicate() raises.
Dead == {"exited", "failed", "garbled"}

VARIABLES
    pc,                       \* position of the main control flow
    exiting,                  \* signal_handler has run, SystemExit is unwinding
    recording_enabled,        \* settings["recording_enabled"]
    last_status,              \* TikTokLiveWatcher.last_status
    recording_disabled_shown, \* TikTokLiveWatcher.recording_disabled_shown
    current_status,           \* monitor_user's local current_status
    attempt,                  \* loop index of is_user_live
    active_process,           \* StreamRecorder.active_process (a pid or NoProc)
    newproc,                  \* Popen object created but not yet assigned
    proc,                     \* state of every capture process
    cleanup_calls,            \* history: cleanup() calls since the signal (or start)
    events,                   \* history: what the controller did to processes and files
    poll,                     \* history: what the current poll's handling did
    hist,                     \* history: results of the last completed polls
    fired_since_offline,      \* history: entering-live fired, no OFFLINE since
    active_at_signal,         \* history: process recording when the signal came
    probe_log,                \* history: failures and sleeps of the current probe
    session,                  \* history: the monitoring session and its notices
    last_op,                  \* history: last call made on the controller directly
    recordings,               \* the .mp4 files of the recordings directory
    usernames,                \* UsernameManager.usernames
    usernames_file,           \* content of usernames.json
    settings_file,            \* content of settings.json
    store_op                  \* history: last call made on the two managers

vars == <<pc, exiting, recording_enabled, last_status, recording_disabled_shown,
          current_status, attempt, active_process, newproc, proc, cleanup_calls,
          events, poll, hist, fired_since_offline, active_at_signal, probe_log,
          session, last_op, recordings, usernames, usernames_file,
          settings_file, store_op>>

monitor_vars == <<last_status, recording_disabled_shown, current_status, attempt>>
history_vars == <<poll, hist, fired_since_offline>>
shutdown_vars == <<exiting, cleanup_calls, active_at_signal>>
ctl_vars == <<active_process, proc, cleanup_calls, events>>
store_vars == <<usernames, usernames_file, settings_file, store_op>>
component_vars == <<last_op, recordings, store_vars>>

\* ------------------------------------------------------------------------
\* Recording Controller (stream_recorder.py)

\* The controller's state as one value, for the operations below.
Ctl == [active_process |-> active_process, proc |-> proc,
        cleanup_calls |-> cleanup_calls, events |-> events]

\* One more entry in the history of what the controller did.
Log(c, e) == [c EXCEPT !.events = Append(@, e)]

\* Faulty variant: a handle counts as a recording, whatever its process does.
is_recording_handle_only(c) == c.active_process # NoProc

\* Faulty variant: the controller never reports a recording.
is_recording_never(c) == FALSE

is_recording(c) ==
    IF c.active_process # NoProc THEN c.proc[c.active_process] \in Alive
    ELSE FALSE

\* Faulty variant: the handle is dropped and the process left running.
release_without_terminate(pr, p) == pr

\* terminate(), wait(timeout=5) and on TimeoutExpired kill(): the process
\* has ended when stop_recording leaves its try block.
terminate_and_wait(pr, p) ==
    [pr EXCEPT ![p] = IF @ \in Alive THEN "exited" ELSE @]

\* stop_recording, lines 184-191: terminate() on a process still running,
\* communicate() on one that has exited.
stop_request(c) ==
    IF c.proc[c.active_process] \in Alive THEN Log(c, "terminate")
    ELSE Log(c, "communicate")

\* Faulty variant: the process is killed whether or not the wait timed out.
stop_wait_kills_always(c) ==
    Log([c EXCEPT !.proc = terminate_and_wait(c.proc, c.active_process)], "kill")

\* stop_recording, lines 186 and 197-198: wait(timeout=5) returns, or
\* raises TimeoutExpired and the process is killed.
stop_wait(c) ==
    LET c1 == [c EXCEPT !.proc = terminate_and_wait(c.proc, c.active_process)]
    IN IF c.proc[c.active_process] = "hung" THEN Log(c1, "kill") ELSE c1

\* stop_recording, line 195: self._fix_recorded_files()
stop_fixup(c) == Log(c, "fix")

\* Faulty variant: the handle survives stop_recording.
stop_release_keeps_handle(c) == c

\* stop_recording, lines 202-203: finally, self.active_process = None
stop_release(c) == [c EXCEPT !.active_process = NoProc]

\* Faulty variant: the handle is released at the end of the try block, not
\* in a finally clause.
stop_recording_release_in_try(c) ==
    IF c.active_process # NoProc
    THEN IF c.proc[c.active_process] \in {"hung", "garbled"}
         THEN stop_wait(stop_request(c))
         ELSE stop_release(stop_fixup(stop_wait(stop_request(c))))
    ELSE c

\* The fixup is inside the try block: TimeoutExpired (a hung process) and an
\* exception of communicate() (garbled output) skip it.
stop_recording(c) ==
    IF c.active_process # NoProc
    THEN IF c.proc[c.active_process] \in {"hung", "garbled"}
         THEN stop_release(stop_wait(stop_request(c)))
         ELSE stop_release(stop_fixup(stop_wait(stop_request(c))))
    ELSE c

\* Faulty variant: cleanup that does not stop the recording.
cleanup_skips_stop(c) == [c EXCEPT !.cleanup_calls = @ + 1]

cleanup(c) == stop_recording([c EXCEPT !.cleanup_calls = @ + 1])

\* Faulty variant: start_recording without the stop of the old recording.
displace_skipped(c) == c

\* start_recording, lines 81-82
displace(c) == IF c.active_process # NoProc THEN stop_recording(c) ELSE c

\* Faulty variant: the fallback tool is tried first.
ChooseTool_fallback_first(streamlink, ytdlp) ==
    IF ytdlp THEN "ytdlp" ELSE IF streamlink THEN "streamlink" ELSE "none"

\* start_recording, lines 91-98
ChooseTool(streamlink, ytdlp) ==
    IF streamlink THEN "streamlink" ELSE IF ytdlp THEN "ytdlp" ELSE "none"

\* subprocess.Popen(cmd, ...) has returned: process p runs.
spawn(c, p) == Log([c EXCEPT !.proc[p] = "running"], "spawn")

\* self.active_process = <the Popen object>
store(c, p) == [c EXCEPT !.active_process = p]

\* _start_recording_streamlink, lines 132-140: the value returned.
\* communicate() raising is caught at line 142 and False is returned.
liveness_ok(c) == c.proc[c.active_process] \notin {"failed", "garbled"}

\* _start_recording_streamlink, lines 132-137: the handle is released when
\* the process has exited with a failure marker.
liveness_check(c) ==
    IF c.proc[c.active_process] = "failed"
    THEN [Log(c, "poll") EXCEPT !.active_process = NoProc]
    ELSE Log(c, "poll")

\* start_recording as one call; early is the state of the new process when
\* time.sleep(3) returns, spawned is FALSE when Popen raises.
start_recording(c, url, streamlink, ytdlp, spawned, p, early) ==
    LET c1 == displace(c)
        tool == ChooseTool(streamlink, ytdlp)
    IN IF ~url \/ tool = "none" \/ ~spawned
       THEN [ctl |-> c1, ret |-> FALSE, launched |-> "none"]
       ELSE IF tool = "ytdlp"
       THEN [ctl |-> store(spawn(c1, p), p), ret |-> TRUE, launched |-> "ytdlp"]
       ELSE LET c2 == store(spawn(c1, p), p)
                c3 == [c2 EXCEPT !.proc[p] = early]
            IN [ctl |-> liveness_check(c3), ret |-> liveness_ok(c3),
                launched |-> "streamlink"]

\* ------------------------------------------------------------------------
\* The recordings directory and _fix_recorded_files.
\*
\* A file is named after the capture process that wrote it, followed by
\* `suffix` times "_fixed"; its content is what the capture process wrote
\* ("raw") or what ffmpeg repackaged ("fixed").  The directory is the
\* sequence of its *.mp4 files in the order of their modification times.
\* The directory is followed where the controller is called directly
\* (SpecCtl); under run() it is left as it is found.
\* ------------------------------------------------------------------------

File(p, n, content) == [pid |-> p, suffix |-> n, content |-> content]

SameName(f, g) == f.pid = g.pid /\ f.suffix = g.suffix

\* The directory without the file named as f.
RECURSIVE Unlink(_, _)
Unlink(dir, f) ==
    IF dir = <<>> THEN <<>>
    ELSE IF SameName(Head(dir), f) THEN Unlink(Tail(dir), f)
    ELSE <<Head(dir)>> \o Unlink(Tail(dir), f)

\* max(mp4_files, key=os.path.getmtime)
latest_file(dir) == dir[Len(dir)]

\* f"{base_name}_fixed.mp4", with the content ffmpeg writes to it
fixed_file(f) == File(f.pid, f.suffix + 1, "fixed")

\* ffmpeg ... fixed_file -y: the temporary file is written, over a file of
\* the same name if there is one.
ffmpeg_writes(dir) ==
    Append(Unlink(dir, fixed_file(latest_file(dir))), fixed_file(latest_file(dir)))

\* os.replace(fixed_file, latest_file): the temporary file takes the place
\* and the name of the file it was made from.
os_replace(dir) ==
    Append(Unlink(Unlink(dir, fixed_file(latest_file(dir))), latest_file(dir)),
           File(latest_file(dir).pid, latest_file(dir).suffix, "fixed"))

\* if os.path.exists(fixed_file): os.remove(fixed_file)
os_remove(dir) == Unlink(dir, fixed_file(latest_file(dir)))

\* How the machine's ffmpeg is: "absent" when _get_ffmpeg_path returns None,
\* "broken" when the -version run of line 236 raises, "ok" otherwise.
FfmpegTools == {"absent", "broken", "ok"}

\* What becomes of the repackaging run: "ok" is return code 0 and a rename
\* that succeeds, "fails" a return code other than 0, "raises" an exception
\* once ffmpeg has written the temporary file (os.replace refused by the
\* file system, or the decoding of ffmpeg's output by subprocess.run with
\* text=True), which line 275 catches and prints.
FfmpegOutcomes == {"ok", "fails", "raises"}

\* Faulty variant: the repackaging is attempted whatever the tool check said.
FixupRuns_always(tool) == TRUE

\* _fix_recorded_files, lines 231-236: the function goes on past the tool
\* check only with an ffmpeg that answers.
FixupRuns(tool) == tool = "ok"

_fix_recorded_files(dir, tool, out) ==
    IF ~FixupRuns(tool) \/ dir = <<>> THEN dir
    ELSE IF out = "ok" THEN os_replace(dir)
    ELSE IF out = "fails" THEN os_remove(dir)
    ELSE ffmpeg_writes(dir)

\* ------------------------------------------------------------------------
\* UsernameManager and SettingsManager: the lists in memory and the two
\* JSON files.
\*
\* A name is a sequence of characters.  A file is "missing", "unreadable"
\* (open() raises IOError), "malformed" (json.load raises JSONDecodeError; a
\* file truncated by a write that failed is malformed), "undecodable" (bytes
\* that are not UTF-8: the read raises UnicodeDecodeError), "notobject"
\* (valid JSON that is not an object, such as a list) or an "object", which
\* has the key or has not.
\* ------------------------------------------------------------------------

\* Bound: the length of a name typed by the user.
MaxNameLen == 2

\* Bound: the number of names in the list.
MaxNames == 2

\* The characters typed: a blank and a letter in upper case; the letter in
\* lower case is what is stored for it.
Chars == {" ", "A"}

RawNames == UNION {[1..n -> Chars] : n \in 0..MaxNameLen}

StoredNames == UNION {[1..n -> {" ", "a"}] : n \in 0..MaxNameLen}

\* str.strip()
RECURSIVE lstrip(_)
lstrip(s) == IF s # <<>> /\ Head(s) = " " THEN lstrip(Tail(s)) ELSE s

RECURSIVE rstrip(_)
rstrip(s) ==
    IF s # <<>> /\ s[Len(s)] = " " THEN rstrip(SubSeq(s, 1, Len(s) - 1)) ELSE s

strip(s) == rstrip(lstrip(s))

\* str.lower()
lower(s) == [i \in 1..Len(s) |-> IF s[i] = "A" THEN "a" ELSE s[i]]

\* Faulty variant: the name is stored as it was typed.
normalize_identity(raw) == raw

\* username.strip().lower(), lines 34 and 46
normalize(raw) == lower(strip(raw))

\* username in self.usernames
Contains(list, u) == \E i \in 1..Len(list) : list[i] = u

\* Faulty variant: the name at the head of the list goes.
list_remove_head(list, u) == Tail(list)

\* self.usernames.remove(username): the first occurrence goes.
RECURSIVE list_remove(_, _)
list_remove(list, u) ==
    IF list = <<>> THEN <<>>
    ELSE IF Head(list) = u THEN Tail(list)
    ELSE <<Head(list)>> \o list_remove(Tail(list), u)

FileKinds == {"missing", "unreadable", "malformed", "undecodable", "notobject",
              "object"}

UsernamesFile(kind, has, list) == [kind |-> kind, has |-> has, usernames |-> list]

SettingsFile(kind, has, value) == [kind |-> kind, has |-> has, value |-> value]

\* The exceptions that the except clause of line 21 names.
LoadCaught == {"unreadable", "malformed"}

\* _load_usernames: data.get('usernames', []) of an object, [] for a file
\* that is missing or whose reading raises JSONDecodeError or IOError.
\* The get of something that is not an object raises AttributeError and the
\* read of bytes that are not UTF-8 raises UnicodeDecodeError; the except
\* clause of line 21 names neither.
_load_usernames(f) ==
    IF f.kind = "object"
    THEN [raised |-> FALSE, usernames |-> IF f.has THEN f.usernames ELSE <<>>]
    ELSE [raised |-> f.kind \notin LoadCaught \cup {"missing"}, usernames |-> <<>>]

\* _load_settings followed by get_recording_enabled: the value of the key,
\* False when the key or the file is missing or the reading is caught.
_load_settings(f) == IF f.kind = "object" /\ f.has THEN f.value ELSE FALSE

\* How a write goes: open(filename, 'w') raises IOError and the file is as
\* it was, or json.dump raises IOError after open() has emptied the file,
\* or the whole text is written.
WriteOutcomes == {"ok", "open_fails", "dump_fails"}

\* Faulty variant: the list is written before the change is made to it.
_save_usernames_stale(f, old, list, w) ==
    IF w = "ok" THEN UsernamesFile("object", TRUE, old)
    ELSE IF w = "dump_fails" THEN UsernamesFile("malformed", FALSE, <<>>)
    ELSE f

\* _save_usernames: json.dump({'usernames': self.usernames}, f); IOError is
\* caught and reported.
_save_usernames(f, old, list, w) ==
    IF w = "ok" THEN UsernamesFile("object", TRUE, list)
    ELSE IF w = "dump_fails" THEN UsernamesFile("malformed", FALSE, <<>>)
    ELSE f

\* _save_settings: json.dump(self.settings, f)
_save_settings(f, value, w) ==
    IF w = "ok" THEN SettingsFile("object", TRUE, value)
    ELSE IF w = "dump_fails" THEN SettingsFile("malformed", FALSE, FALSE)
    ELSE f

\* add_username: the list, the file and the value returned.
add_username(list, f, raw, w) ==
    LET username == normalize(raw)
    IN IF username = <<>> \/ Contains(list, username)
       THEN [usernames |-> list, file |-> f, ret |-> FALSE]
       ELSE [usernames |-> Append(list, username),
             file |-> _save_usernames(f, list, Append(list, username), w),
             ret |-> TRUE]

\* remove_username
remove_username(list, f, raw, w) ==
    LET username == normalize(raw)
    IN IF Contains(list, username)
       THEN [usernames |-> list_remove(list, username),
             file |-> _save_usernames(f, list, list_remove(list, username), w),
             ret |-> TRUE]
       ELSE [usernames |-> list, file |-> f, ret |-> FALSE]

\* SettingsManager.toggle_recording: the new value and the file.
settings_toggle(value, f, w) ==
    [value |-> ~value, file |-> _save_settings(f, ~value, w)]

NoStoreOp == [op |-> "none", arg |-> <<>>, ret |-> FALSE, raised |-> FALSE,
              w |-> "ok", side |-> "none", after_add |-> FALSE]

\* ------------------------------------------------------------------------
\* Status Prober (tiktok_checker.py)

\* Faulty variant: the loop does not end with the third attempt.
LoopContinues_always(i) == TRUE

\* for attempt in range(3): another iteration follows the one of index i
LoopContinues(i) == i + 1 < Attempts

\* if attempt < 2
SleepsAfter(i) == i < 2

\* Faulty variant: the exponent is off by one.
BackoffBase_next_power(i) == 2 ^ (i + 1)

\* delay = (2 ** attempt) + random.uniform(0, 1): the base, in seconds
BackoffBase(i) == 2 ^ i

NoProbe == [fails |-> 0, sleeps |-> <<>>]

\* ------------------------------------------------------------------------
\* Session Monitor (main.py)

\* Faulty variant: fires on every LIVE result.
EnteringLive_any_live(last, cur) == cur = "True"

\* Faulty variant: fires on OFFLINE to LIVE only.
EnteringLive_only_from_offline(last, cur) == last = "False" /\ cur = "True"

EnteringLive(last, cur) ==
    (last = "None" /\ cur = "True") \/ (last = "False" /\ cur = "True")

\* Faulty variants of the leaving-live condition.
LeavingLive_wrong_operand(last, cur) == last = "True" /\ cur = "None"

LeavingLive_not_live(last, cur) == last = "True" /\ cur # "True"

LeavingLive_from_unknown(last, cur) == last # "False" /\ cur = "False"

LeavingLive(last, cur) == last = "True" /\ cur = "False"

Branch(last, cur) ==
    IF EnteringLive(last, cur) THEN "entering"
    ELSE IF LeavingLive(last, cur) THEN "leaving"
    ELSE "other"

\* Faulty variant: the setting as it was when the session began.
RecordingEnabledAt_session_start(setting, at_start) == at_start

\* recording_enabled = self.settings_manager.get_recording_enabled()
RecordingEnabledAt(setting, at_start) == setting

\* Faulty variant: the flag is not consulted.
ShowsNotice_every_time(enabled, shown) == ~enabled

\* if not recording_enabled and not self.recording_disabled_shown
ShowsNotice(enabled, shown) == ~enabled /\ ~shown

\* Faulty variant: an UNKNOWN result does not overwrite last_status.
NextLastStatus_keep_on_unknown(last, cur) == IF cur = "None" THEN last ELSE cur

\* self.last_status = current_status
NextLastStatus(last, cur) == cur

Push(h, x) == IF Len(h) < HistLen THEN Append(h, x) ELSE Append(Tail(h), x)

NoPoll == [fired |-> "none", ops |-> {}, was_active |-> FALSE, refire |-> FALSE,
           resolves |-> 0, starts |-> 0, url |-> FALSE, launched |-> NoProc,
           checks |-> 0, check |-> "none",
           notice |-> FALSE, enabled |-> FALSE]

NoSession == [index |-> 0, notices |-> 0, earlier |-> 0,
              enabled_at_start |-> FALSE]

\* The inputs of a call made on the controller directly: the tools that
\* check_dependencies found in start_recording and the one launched, and
\* how ffmpeg was when the fixup of stop_recording asked for it.
NoArg == [streamlink |-> FALSE, ytdlp |-> FALSE, launched |-> "none",
          tool |-> "absent"]

NoOp == [name |-> "none", ret |-> FALSE, tick |-> FALSE, handle |-> NoProc,
         after_stop |-> FALSE, arg |-> NoArg]

\* The watcher, its checker and its recorder after construction.
InitWatcher ==
    /\ pc = "menu"
    /\ exiting = FALSE
    /\ last_status = "None"
    /\ recording_disabled_shown = FALSE
    /\ current_status = "None"
    /\ attempt = 0
    /\ active_process = NoProc
    /\ newproc = NoProc
    /\ proc = [p \in Pids |-> "unborn"]
    /\ cleanup_calls = 0
    /\ events = <<>>
    /\ poll = NoPoll
    /\ hist = <<>>
    /\ fired_since_offline = FALSE
    /\ active_at_signal = NoProc
    /\ probe_log = NoProbe
    /\ session = NoSession
    /\ last_op = NoOp
    /\ recordings = <<>>

\* The two managers have loaded their files: no account yet, and the
\* setting that settings.json holds.
Init ==
    /\ InitWatcher
    /\ recording_enabled \in BOOLEAN
    /\ usernames = <<>>
    /\ usernames_file = UsernamesFile("missing", FALSE, <<>>)
    /\ settings_file = SettingsFile("object", TRUE, recording_enabled)
    /\ store_op = NoStoreOp

\* The controller's variables take the value c.
SetCtl(c) ==
    /\ active_process' = c.active_process
    /\ proc' = c.proc
    /\ cleanup_calls' = c.cleanup_calls
    /\ events' = c.events

\* End of _handle_status_change: the assignment of line 97, then the log
\* line of monitor_user; the poll is complete and the loop sleeps.
Finish ==
    /\ last_status' = NextLastStatus(last_status, current_status)
    /\ hist' = Push(hist, StatusOf(current_status))
    /\ pc' = "sleep"

\* --- the except clauses met by a failure inside a poll ---

\* Faulty variant: every clause names the two exceptions of a missing tool.
Handlers_missing_tool_only(site) == {"CalledProcessError", "FileNotFoundError"}

\* The exceptions named by the except clause around each place of failure:
\* is_live() in is_user_live (tiktok_checker.py line 32) and in
\* get_stream_url (line 55), the version runs of check_dependencies
\* (stream_recorder.py lines 57 and 64), Popen in _start_recording_*
\* (lines 142 and 175), and the body of _fix_recorded_files (lines 272-276).
Handlers(site) ==
    IF site = "deps" THEN {"CalledProcessError", "FileNotFoundError"}
    ELSE IF site = "fixup"
    THEN {"CalledProcessError", "FileNotFoundError", "Exception"}
    ELSE {"Exception"}

\* Every exception raised here derives from Exception.
Caught(site, exc) == exc \in Handlers(site) \/ "Exception" \in Handlers(site)

\* An exception that no clause of the poll catches leaves monitor_user,
\* which catches KeyboardInterrupt only, and unwinds run().
Propagates == pc' = "raised"

\* The positions of the loop of monitor_user.
LoopPcs == {"probe", "backoff", "handle", "resolve", "deps", "leave_wait",
            "leave_fix", "sl_store", "sl_sleep", "yt_store", "sleep"}

\* --- run(): the menu ---

\* Under run() the disk takes every write; writes that fail are followed
\* where the managers are called directly (SpecStore).
toggle_recording ==
    /\ pc = "menu" /\ ~exiting
    /\ recording_enabled' = settings_toggle(recording_enabled, settings_file, "ok").value
    /\ settings_file' = settings_toggle(recording_enabled, settings_file, "ok").file
    /\ UNCHANGED <<pc, monitor_vars, ctl_vars, newproc, history_vars,
                   shutdown_vars, probe_log, session, last_op, recordings,
                   usernames, usernames_file, store_op>>

\* Faulty variant: the session goes on from what the last one left.
SessionStart_keeps_state(last, shown) ==
    [last_status |-> last, recording_disabled_shown |-> shown]

\* monitor_user, lines 40-41: the Session State a session starts from.
SessionStart(last, shown) ==
    [last_status |-> "None", recording_disabled_shown |-> FALSE]

monitor_user ==
    /\ pc = "menu" /\ ~exiting
    /\ session.index < MaxSessions
    /\ last_status' = SessionStart(last_status, recording_disabled_shown).last_status
    /\ recording_disabled_shown' =
           SessionStart(last_status, recording_disabled_shown).recording_disabled_shown
    /\ attempt' = 0
    /\ pc' = "probe"
    /\ poll' = NoPoll
    /\ hist' = <<>>
    /\ fired_since_offline' = FALSE
    /\ probe_log' = NoProbe
    /\ session' = [index |-> session.index + 1, notices |-> 0,
                   earlier |-> session.earlier + session.notices,
                   enabled_at_start |-> recording_enabled]
    /\ UNCHANGED <<recording_enabled, current_status, ctl_vars, newproc,
                   shutdown_vars, component_vars>>

\* Faulty variant: run without its finally block.
run_finally_missing(c) == c

\* finally: self.recorder.cleanup()
run_finally(c) == cleanup(c)

\* choice == 0: break, then the finally block.
exit_choice ==
    /\ pc = "menu" /\ ~exiting
    /\ SetCtl(run_finally(Ctl))
    /\ pc' = "exited"
    /\ UNCHANGED <<recording_enabled, monitor_vars, newproc, history_vars,
                   exiting, active_at_signal, probe_log, session, component_vars>>

\* --- is_user_live ---

\* One iteration of "for attempt in range(3)": is_live() returns and so does
\* is_user_live, or it raises; then the sleep, the next iteration, or the
\* return None after the loop.
is_user_live_attempt ==
    /\ pc = "probe" /\ ~exiting
    /\ \E r \in {"True", "False", "raise"} :
         IF r # "raise"
         THEN /\ current_status' = r
              /\ pc' = "handle"
              /\ UNCHANGED <<attempt, probe_log>>
         ELSE IF ~Caught("probe", "NetworkError")
         THEN /\ Propagates
              /\ UNCHANGED <<current_status, attempt, probe_log>>
         ELSE /\ probe_log' = [probe_log EXCEPT !.fails = @ + 1]
              /\ IF SleepsAfter(attempt)
                 THEN /\ pc' = "backoff"
                      /\ UNCHANGED <<current_status, attempt>>
                 ELSE IF LoopContinues(attempt)
                 THEN /\ pc' = "probe"
                      /\ attempt' = attempt + 1
                      /\ UNCHANGED current_status
                 ELSE /\ current_status' = "None"
                      /\ pc' = "handle"
                      /\ UNCHANGED attempt
    /\ UNCHANGED <<recording_enabled, last_status, recording_disabled_shown,
                   ctl_vars, newproc, history_vars, shutdown_vars, session,
                   component_vars>>

\* await asyncio.sleep(delay) returns: the next iteration, or the return
\* None after the loop.
is_user_live_backoff ==
    /\ pc = "backoff" /\ ~exiting
    /\ probe_log' = [probe_log EXCEPT !.sleeps = Append(@, BackoffBase(attempt))]
    /\ IF LoopContinues(attempt)
       THEN /\ attempt' = attempt + 1
            /\ pc' = "probe"
            /\ UNCHANGED current_status
       ELSE /\ current_status' = "None"
            /\ pc' = "handle"
            /\ UNCHANGED attempt
    /\ UNCHANGED <<recording_enabled, last_status, recording_disabled_shown,
                   ctl_vars, newproc, history_vars, shutdown_vars, session,
                   component_vars>>

\* --- _handle_status_change ---

handle_status_change ==
    /\ pc = "handle" /\ ~exiting
    /\ LET b == Branch(last_status, current_status)
           act == is_recording(Ctl)
           enabled == RecordingEnabledAt(recording_enabled,
                                         session.enabled_at_start)
           p0 == [NoPoll EXCEPT !.fired = b, !.was_active = act,
                     !.refire = (b = "entering" /\ fired_since_offline),
                     !.enabled = enabled]
       IN
       /\ fired_since_offline' =
              IF b = "entering" THEN TRUE
              ELSE IF current_status = "False" THEN FALSE
              ELSE fired_since_offline
       /\ IF b = "entering" /\ enabled /\ ~act
          THEN \* await self.checker.get_stream_url(username)
               /\ pc' = "resolve"
               /\ poll' = p0
               /\ UNCHANGED <<last_status, recording_disabled_shown, hist,
                              ctl_vars, session>>
          ELSE IF b = "entering"
          THEN LET notice == ShowsNotice(enabled, recording_disabled_shown)
               IN
               /\ recording_disabled_shown' =
                      IF notice THEN TRUE ELSE recording_disabled_shown
               /\ session' = [session EXCEPT
                                !.notices = IF notice THEN @ + 1 ELSE @]
               /\ poll' = [p0 EXCEPT !.notice = notice]
               /\ Finish
               /\ UNCHANGED ctl_vars
          ELSE IF b = "leaving" /\ act
          THEN \* stop_recording: poll() is None, terminate(), wait(timeout=5)
               /\ pc' = "leave_wait"
               /\ poll' = [p0 EXCEPT !.ops = {"stop"}]
               /\ SetCtl(stop_request(Ctl))
               /\ UNCHANGED <<last_status, recording_disabled_shown, hist,
                              session>>
          ELSE /\ poll' = p0
               /\ Finish
               /\ UNCHANGED <<recording_disabled_shown, ctl_vars, session>>
    /\ probe_log' = NoProbe
    /\ UNCHANGED <<recording_enabled, current_status, attempt, newproc,
                   exiting, active_at_signal, component_vars>>

\* stop_recording called by the leaving-live branch: wait(timeout=5) returns
\* and _fix_recorded_files is entered, or it raises TimeoutExpired, the
\* process is killed and finally releases the handle.
stop_recording_wait ==
    /\ pc = "leave_wait" /\ ~exiting
    /\ IF proc[active_process] = "hung"
       THEN /\ SetCtl(stop_release(stop_wait(Ctl)))
            /\ Finish
       ELSE /\ SetCtl(stop_fixup(stop_wait(Ctl)))
            /\ pc' = "leave_fix"
            /\ UNCHANGED <<last_status, hist>>
    /\ UNCHANGED <<recording_enabled, recording_disabled_shown, current_status,
                   attempt, newproc, poll, fired_since_offline, exiting,
                   active_at_signal, probe_log, session, component_vars>>

\* _fix_recorded_files returns, with the file repackaged or after a failure
\* of ffmpeg or of the rename; finally releases the handle and
\* stop_recording returns to the leaving-live branch.
stop_recording_return ==
    /\ pc = "leave_fix" /\ ~exiting
    /\ \E out \in FfmpegOutcomes :
         IF out # "ok" /\ ~Caught("fixup", "OSError")
         THEN /\ Propagates
              /\ UNCHANGED <<ctl_vars, last_status, hist>>
         ELSE /\ SetCtl(stop_release(Ctl))
              /\ Finish
    /\ UNCHANGED <<recording_enabled, recording_disabled_shown, current_status,
                   attempt, newproc, poll, fired_since_offline, exiting,
                   active_at_signal, probe_log, session, component_vars>>

FreshPids == {p \in Pids : proc[p] = "unborn"}

FreshPid == CHOOSE p \in FreshPids : \A q \in FreshPids : p <= q

\* What the one `await client.is_live()` of get_stream_url does.
LiveChecks == {"True", "False", "raise"}

\* Faulty variant: a check that raises is taken for a live account.
get_stream_url_unless_offline(r) == r # "False"

\* get_stream_url: TRUE for the URL of line 51, FALSE for None (line 58,
\* reached when the check says not live and from the except clause).
get_stream_url(r) == r = "True"

\* get_stream_url, then the entry of start_recording: an existing handle is
\* stopped first, and check_dependencies is entered.
get_stream_url_and_start ==
    /\ pc = "resolve" /\ ~exiting
    /\ FreshPids # {}
    /\ \E r \in LiveChecks :
         IF r = "raise" /\ ~Caught("resolve", "NetworkError")
         THEN /\ Propagates
              /\ UNCHANGED <<poll, last_status, hist, ctl_vars>>
         ELSE IF ~get_stream_url(r)
         THEN /\ poll' = [poll EXCEPT !.ops = @ \cup {"resolve"},
                                      !.resolves = @ + 1,
                                      !.checks = @ + 1, !.check = r]
              /\ Finish
              /\ UNCHANGED ctl_vars
         ELSE LET stopped == IF active_process # NoProc THEN {"stop"} ELSE {}
              IN
              /\ poll' = [poll EXCEPT
                            !.ops = @ \cup {"resolve", "start"} \cup stopped,
                            !.resolves = @ + 1, !.starts = @ + 1,
                            !.checks = @ + 1, !.check = r,
                            !.url = TRUE]
              /\ SetCtl(displace(Ctl))
              /\ pc' = "deps"
              /\ UNCHANGED <<last_status, hist>>
    /\ UNCHANGED <<recording_enabled, recording_disabled_shown, current_status,
                   attempt, newproc, fired_since_offline, exiting,
                   active_at_signal, probe_log, session, component_vars>>

\* check_dependencies returns and start_recording picks the tool; the
\* chosen _start_recording_* runs up to the return of Popen.
check_dependencies_and_spawn ==
    /\ pc = "deps" /\ ~exiting
    /\ \E streamlink \in BOOLEAN, ytdlp \in BOOLEAN, spawned \in BOOLEAN :
         LET tool == ChooseTool(streamlink, ytdlp)
         IN IF \/ (~streamlink \/ ~ytdlp) /\ ~Caught("deps", "FileNotFoundError")
               \/ tool # "none" /\ ~spawned /\ ~Caught("launch", "OSError")
            THEN /\ Propagates
                 /\ UNCHANGED <<newproc, ctl_vars, poll, last_status, hist>>
            ELSE IF tool # "none" /\ spawned
            THEN /\ SetCtl(spawn(Ctl, FreshPid))
                 /\ newproc' = FreshPid
                 /\ poll' = [poll EXCEPT !.launched = FreshPid]
                 /\ pc' = IF tool = "streamlink" THEN "sl_store" ELSE "yt_store"
                 /\ UNCHANGED <<last_status, hist>>
            ELSE \* no tool, or Popen raised: return False
                 /\ Finish
                 /\ UNCHANGED <<newproc, ctl_vars, poll>>
    /\ UNCHANGED <<recording_enabled, recording_disabled_shown, current_status,
                   attempt, fired_since_offline, exiting, active_at_signal,
                   probe_log, session, component_vars>>

\* self.active_process = subprocess.Popen(...) in _start_recording_streamlink:
\* the assignment, after Popen has returned.
streamlink_store ==
    /\ pc = "sl_store" /\ ~exiting
    /\ SetCtl(store(Ctl, newproc))
    /\ newproc' = NoProc
    /\ pc' = "sl_sleep"
    /\ UNCHANGED <<recording_enabled, monitor_vars, history_vars, exiting,
                   active_at_signal, probe_log, session, component_vars>>

\* After time.sleep(3): poll(), communicate() and the failure markers.
streamlink_liveness_check ==
    /\ pc = "sl_sleep" /\ ~exiting
    /\ SetCtl(liveness_check(Ctl))
    /\ Finish
    /\ UNCHANGED <<recording_enabled, recording_disabled_shown, current_status,
                   attempt, newproc, poll, fired_since_offline, exiting,
                   active_at_signal, probe_log, session, component_vars>>

\* self.active_process = subprocess.Popen(...) in _start_recording_ytdlp,
\* then return True.
ytdlp_store ==
    /\ pc = "yt_store" /\ ~exiting
    /\ SetCtl(store(Ctl, newproc))
    /\ newproc' = NoProc
    /\ Finish
    /\ UNCHANGED <<recording_enabled, recording_disabled_shown, current_status,
                   attempt, poll, fired_since_offline, exiting,
                   active_at_signal, probe_log, session, component_vars>>

\* await asyncio.sleep(interval), then the next iteration of while True;
\* the histories of the poll start afresh.
poll_sleep ==
    /\ pc = "sleep" /\ ~exiting
    /\ pc' = "probe"
    /\ attempt' = 0
    /\ events' = <<>>
    /\ poll' = NoPoll
    /\ UNCHANGED <<recording_enabled, last_status, recording_disabled_shown,
                   current_status, active_process, newproc, proc, hist,
                   fired_since_offline, shutdown_vars, probe_log, session,
                   component_vars>>

\* ------------------------------------------------------------------------
\* Environment: a capture process ends by itself, with or without a failure
\* marker in its diagnostic output, or stops answering a terminate request.
capture_process_exits ==
    /\ pc # "exited"
    /\ \E p \in Pids, how \in Dead :
         /\ proc[p] \in Alive
         /\ proc' = [proc EXCEPT ![p] = how]
    /\ UNCHANGED <<pc, recording_enabled, monitor_vars, active_process, newproc,
                   events, history_vars, shutdown_vars, probe_log, session,
                   component_vars>>

capture_process_hangs ==
    /\ pc # "exited"
    /\ \E p \in Pids :
         /\ proc[p] = "running"
         /\ proc' = [proc EXCEPT ![p] = "hung"]
    /\ UNCHANGED <<pc, recording_enabled, monitor_vars, active_process, newproc,
                   events, history_vars, shutdown_vars, probe_log, session,
                   component_vars>>

\* ------------------------------------------------------------------------
\* Shutdown (main.py, setup_signal_handlers and run)

\* signal_handler: self.recorder.cleanup(); sys.exit(0) follows.
\* cleanup_calls counts from the delivery of the signal.
signal_handler(c) == cleanup([c EXCEPT !.cleanup_calls = 0])

\* Positions inside _get_ffmpeg_path, which check_dependencies and
\* _fix_recorded_files call: its bare "except: pass" also catches the
\* SystemExit of a handler that runs inside its try block.
BareExcept == {"deps", "leave_fix"}

\* SIGINT or SIGTERM is delivered between two instructions of the main
\* flow; the handler runs to its sys.exit(0), and SystemExit either starts
\* to unwind the main flow or is swallowed and the main flow goes on.
shutdown_signal ==
    /\ ~exiting /\ pc # "exited"
    /\ active_at_signal' = IF is_recording(Ctl) THEN active_process ELSE NoProc
    /\ SetCtl(signal_handler(Ctl))
    /\ \E swallowed \in BOOLEAN :
         /\ swallowed => pc \in BareExcept
         /\ exiting' = ~swallowed
    /\ UNCHANGED <<pc, recording_enabled, monitor_vars, newproc, history_vars,
                   probe_log, session, component_vars>>

\* SystemExit leaves the frames of the main flow: the finally clause of a
\* stop_recording that was waiting, then the finally clause of run.
system_exit_unwind ==
    /\ (exiting \/ pc = "raised") /\ pc # "exited"
    /\ LET c == IF pc \in {"leave_wait", "leave_fix"}
                THEN [Ctl EXCEPT !.active_process = NoProc]
                ELSE Ctl
       IN SetCtl(run_finally(c))
    /\ newproc' = NoProc
    /\ pc' = "exited"
    /\ UNCHANGED <<recording_enabled, monitor_vars, history_vars, exiting,
                   active_at_signal, probe_log, session, component_vars>>

Next ==
    \/ toggle_recording
    \/ monitor_user
    \/ exit_choice
    \/ is_user_live_attempt
    \/ is_user_live_backoff
    \/ handle_status_change
    \/ stop_recording_wait
    \/ stop_recording_return
    \/ get_stream_url_and_start
    \/ check_dependencies_and_spawn
    \/ streamlink_store
    \/ streamlink_liveness_check
    \/ ytdlp_store
    \/ poll_sleep
    \/ capture_process_exits
    \/ capture_process_hangs
    \/ shutdown_signal
    \/ system_exit_unwind

Spec == Init /\ [][Next]_vars

\* ------------------------------------------------------------------------
\* The Session Monitor as a component, without the signal handlers of run:
\* monitor_user left by KeyboardInterrupt and entered again, and the setting
\* changed by the holder of the SettingsManager while a session sleeps.

\* Positions in the synchronous code of a poll's handling, where a
\* KeyboardInterrupt is raised inside the coroutine.
SessionPcs == {"handle", "deps", "leave_wait", "leave_fix", "sl_store",
               "sl_sleep", "yt_store"}

\* except KeyboardInterrupt: self.recorder.stop_recording(); monitor_user
\* returns to the menu loop of run. A stop_recording that was interrupted
\* releases the handle in its finally clause first. The history of the
\* session ends with it.
keyboard_interrupt ==
    /\ pc \in SessionPcs /\ ~exiting
    /\ LET c == IF pc \in {"leave_wait", "leave_fix"} THEN stop_release(Ctl)
                ELSE Ctl
       IN SetCtl([stop_recording(c) EXCEPT !.events = <<>>])
    /\ newproc' = NoProc
    /\ pc' = "menu"
    /\ poll' = NoPoll
    /\ hist' = <<>>
    /\ fired_since_offline' = FALSE
    /\ probe_log' = NoProbe
    /\ UNCHANGED <<recording_enabled, monitor_vars, exiting, active_at_signal,
                   session, component_vars>>

\* SettingsManager.toggle_recording called between two polls of a session.
toggle_in_session ==
    /\ pc = "sleep" /\ ~exiting
    /\ recording_enabled' = settings_toggle(recording_enabled, settings_file, "ok").value
    /\ settings_file' = settings_toggle(recording_enabled, settings_file, "ok").file
    /\ UNCHANGED <<pc, monitor_vars, ctl_vars, newproc, history_vars,
                   shutdown_vars, probe_log, session, last_op, recordings,
                   usernames, usernames_file, store_op>>

\* No signal handler here: SIGINT raises KeyboardInterrupt instead.
NextSessions ==
    \/ toggle_recording
    \/ monitor_user
    \/ exit_choice
    \/ is_user_live_attempt
    \/ is_user_live_backoff
    \/ handle_status_change
    \/ stop_recording_wait
    \/ stop_recording_return
    \/ get_stream_url_and_start
    \/ check_dependencies_and_spawn
    \/ streamlink_store
    \/ streamlink_liveness_check
    \/ ytdlp_store
    \/ poll_sleep
    \/ capture_process_exits
    \/ capture_process_hangs
    \/ keyboard_interrupt
    \/ toggle_in_session

SpecSessions == Init /\ [][NextSessions]_vars

\* ------------------------------------------------------------------------
\* The Recording Controller as a component: its operations called in any
\* order, from any state of the controller.

\* The controller with an empty history and the call counted afresh.
\* last_op names the call, the value it returned, the handle it found and
\* whether the call before it was a stop that found a handle; tick changes
\* with every call.
AtCall == [Ctl EXCEPT !.events = <<>>, !.cleanup_calls = 0]

Called(name, ret, arg) ==
    last_op' = [name |-> name, ret |-> ret, tick |-> ~last_op.tick,
                handle |-> active_process,
                after_stop |-> (last_op.name = "stop" /\ last_op.handle # NoProc),
                arg |-> arg]

\* The call that left the controller as c came to line 195.
FixupCalled(c) == \E i \in 1..Len(c.events) : c.events[i] = "fix"

\* The directory after a call that left the controller as c.
Fixed(c, tool, out) ==
    IF FixupCalled(c) THEN _fix_recorded_files(recordings, tool, out)
    ELSE recordings

\* Whether the output file of the tool launched is a *.mp4 file of the
\* directory: streamlink writes to the path of line 103, which ends in
\* ".mp4"; yt-dlp is given the template of line 149, "%(ext)s", and names
\* its file after the container of the format it gets.
Mp4Written(launched) == IF launched = "ytdlp" THEN BOOLEAN ELSE {TRUE}

\* The capture process that was launched has opened its output file, unless
\* it ended at once with a failure marker; mp4 says whether glob("*.mp4")
\* finds that file.
Written(dir, c, p, mp4) ==
    IF mp4 /\ c.proc[p] \in (Alive \cup Dead) \ {"failed"}
    THEN Append(dir, File(p, 0, "raw"))
    ELSE dir

\* How ffmpeg is, drawn when the call asks for it.
ToolsAsked(c) == IF FixupCalled(c) THEN FfmpegTools ELSE {"absent"}

\* What becomes of ffmpeg's run, drawn when there is a run.
OutcomesOf(c, tool) ==
    IF FixupCalled(c) /\ FixupRuns(tool) /\ recordings # <<>>
    THEN FfmpegOutcomes
    ELSE {"ok"}

\* The state of the new process when time.sleep(3) returns, drawn when
\* streamlink has been launched.
EarlyStates(url, streamlink, spawned) ==
    IF url /\ streamlink /\ spawned THEN Alive \cup Dead ELSE {"running"}

ctl_start ==
    /\ FreshPids # {}
    /\ \E url \in BOOLEAN, streamlink \in BOOLEAN, ytdlp \in BOOLEAN,
          spawned \in BOOLEAN :
       \E early \in EarlyStates(url, streamlink, spawned) :
         LET r == start_recording(AtCall, url, streamlink, ytdlp, spawned,
                                  FreshPid, early)
         IN \E tool \in ToolsAsked(r.ctl) : \E out \in OutcomesOf(r.ctl, tool) :
            \E mp4 \in Mp4Written(r.launched) :
            /\ SetCtl(r.ctl)
            /\ recordings' = Written(Fixed(r.ctl, tool, out), r.ctl, FreshPid, mp4)
            /\ Called("start", r.ret,
                      [NoArg EXCEPT !.streamlink = streamlink, !.ytdlp = ytdlp,
                                    !.launched = r.launched])
    /\ UNCHANGED <<pc, exiting, recording_enabled, monitor_vars, newproc,
                   history_vars, active_at_signal, probe_log, session,
                   store_vars>>

ctl_stop ==
    /\ \E tool \in ToolsAsked(stop_recording(AtCall)) :
       \E out \in OutcomesOf(stop_recording(AtCall), tool) :
         /\ SetCtl(stop_recording(AtCall))
         /\ recordings' = Fixed(stop_recording(AtCall), tool, out)
         /\ Called("stop", FALSE, [NoArg EXCEPT !.tool = tool])
    /\ UNCHANGED <<pc, exiting, recording_enabled, monitor_vars, newproc,
                   history_vars, active_at_signal, probe_log, session,
                   store_vars>>

ctl_cleanup ==
    /\ \E tool \in ToolsAsked(cleanup(AtCall)) :
       \E out \in OutcomesOf(cleanup(AtCall), tool) :
         /\ SetCtl(cleanup(AtCall))
         /\ recordings' = Fixed(cleanup(AtCall), tool, out)
         /\ Called("cleanup", FALSE, NoArg)
    /\ UNCHANGED <<pc, exiting, recording_enabled, monitor_vars, newproc,
                   history_vars, active_at_signal, probe_log, session,
                   store_vars>>

\* is_recording() called on the controller; nothing but the history changes.
ctl_is_recording ==
    /\ Called("is_recording", is_recording(Ctl), NoArg)
    /\ UNCHANGED <<pc, exiting, recording_enabled, monitor_vars, newproc,
                   history_vars, active_at_signal, probe_log, session,
                   ctl_vars, recordings, store_vars>>

NextCtl ==
    \/ ctl_start
    \/ ctl_stop
    \/ ctl_cleanup
    \/ ctl_is_recording
    \/ capture_process_exits
    \/ capture_process_hangs

SpecCtl == Init /\ [][NextCtl]_vars

\* ------------------------------------------------------------------------
\* The two managers called directly: construction (the load of both
\* files), add_username, remove_username and toggle_recording in any order,
\* with writes that succeed or fail.
\* ------------------------------------------------------------------------

run_vars == <<pc, exiting, monitor_vars, ctl_vars, newproc, history_vars,
              active_at_signal, probe_log, session, last_op, recordings>>

\* usernames.json as it can be found before the first account is added.
StartUsernamesFiles ==
    {UsernamesFile(k, FALSE, <<>>) : k \in FileKinds}
        \cup {UsernamesFile("object", TRUE, <<>>)}

\* settings.json as it can be found: not there, or written by an earlier
\* run of the program.
StartSettingsFiles ==
    {SettingsFile("missing", FALSE, FALSE)}
        \cup {SettingsFile("object", TRUE, v) : v \in BOOLEAN}

\* Before TikTokLiveWatcher.__init__ has made the managers.
InitStore ==
    /\ InitWatcher
    /\ recording_enabled = FALSE
    /\ usernames = <<>>
    /\ usernames_file \in StartUsernamesFiles
    /\ settings_file \in StartSettingsFiles
    /\ store_op = NoStoreOp

\* The two managers share no state and no file.  A behaviour follows the
\* calls made on one of them: side is the manager it has called so far.
\* after_add says that the call before was an add of the same name that
\* returned true.
StoreCalled(op, arg, ret, raised, w, side) ==
    store_op' = [op |-> op, arg |-> arg, ret |-> ret, raised |-> raised,
                 w |-> w, side |-> side,
                 after_add |-> ( /\ store_op.op = "add" /\ store_op.ret
                                 /\ normalize(store_op.arg) = normalize(arg) )]

\* The managers exist: their constructors have returned.
Loaded == store_op.op # "none" /\ ~store_op.raised

\* How the write goes, drawn when the call writes.  An open() that fails
\* leaves an older list in the file; it is followed from a file that holds
\* the list as it is in memory, so that the file is at most one change
\* behind.
WritesOf(writes) ==
    IF ~writes THEN {"ok"}
    ELSE IF _load_usernames(usernames_file).usernames = usernames
    THEN WriteOutcomes
    ELSE WriteOutcomes \ {"open_fails"}

\* UsernameManager() and SettingsManager() in TikTokLiveWatcher.__init__,
\* also of a later run of the program; an exception of the first load ends
\* the construction.
store_load ==
    /\ LET l == _load_usernames(usernames_file)
       IN /\ usernames' = l.usernames
          /\ recording_enabled' =
                 IF l.raised THEN FALSE ELSE _load_settings(settings_file)
          /\ StoreCalled("load", <<>>, ~l.raised, l.raised, "ok", store_op.side)
    /\ UNCHANGED <<usernames_file, settings_file, run_vars>>

store_add ==
    /\ Loaded /\ store_op.side # "settings"
    /\ \E raw \in RawNames :
       \E w \in WritesOf(add_username(usernames, usernames_file, raw, "ok").ret) :
         LET r == add_username(usernames, usernames_file, raw, w)
         IN /\ Len(r.usernames) <= MaxNames
            /\ usernames' = r.usernames
            /\ usernames_file' = r.file
            /\ StoreCalled("add", raw, r.ret, FALSE, w, "names")
    /\ UNCHANGED <<recording_enabled, settings_file, run_vars>>

store_remove ==
    /\ Loaded /\ store_op.side # "settings"
    /\ \E raw \in RawNames :
       \E w \in WritesOf(remove_username(usernames, usernames_file, raw, "ok").ret) :
         LET r == remove_username(usernames, usernames_file, raw, w)
         IN /\ usernames' = r.usernames
            /\ usernames_file' = r.file
            /\ StoreCalled("remove", raw, r.ret, FALSE, w, "names")
    /\ UNCHANGED <<recording_enabled, settings_file, run_vars>>

store_toggle ==
    /\ Loaded /\ store_op.side # "names"
    /\ \E w \in WriteOutcomes :
         LET r == settings_toggle(recording_enabled, settings_file, w)
         IN /\ recording_enabled' = r.value
            /\ settings_file' = r.file
            /\ StoreCalled("toggle", <<>>, r.value, FALSE, w, "settings")
    /\ UNCHANGED <<usernames, usernames_file, run_vars>>

NextStore ==
    \/ store_load
    \/ store_add
    \/ store_remove
    \/ store_toggle

SpecStore == InitStore /\ [][NextStore]_vars

TypeOK ==
    /\ pc \in {"menu", "probe", "backoff", "handle", "resolve", "deps", "leave_wait",
               "leave_fix", "sl_store", "sl_sleep", "yt_store", "sleep", "exited",
               "raised"}
    /\ exiting \in BOOLEAN
    /\ recording_enabled \in BOOLEAN
    /\ last_status \in PyStatus
    /\ recording_disabled_shown \in BOOLEAN
    /\ current_status \in PyStatus
    /\ attempt \in 0..(Attempts - 1)
    /\ active_process \in Pids \cup {NoProc}
    /\ newproc \in Pids \cup {NoProc}
    /\ proc \in [Pids -> {"unborn"} \cup Alive \cup Dead]
    /\ cleanup_calls \in Nat
    /\ \A i \in 1..Len(events) :
           events[i] \in {"terminate", "communicate", "kill", "fix", "spawn", "poll"}
    /\ poll.fired \in {"none", "entering", "leaving", "other"}
    /\ poll.ops \subseteq {"resolve", "start", "stop"}
    /\ poll.check \in LiveChecks \cup {"none"}
    /\ poll.launched \in Pids \cup {NoProc}
    /\ Len(hist) <= HistLen
    /\ fired_since_offline \in BOOLEAN
    /\ active_at_signal \in Pids \cup {NoProc}
    /\ probe_log.fails \in 0..Attempts
    /\ Len(probe_log.sleeps) <= Attempts
    /\ session.index \in 0..MaxSessions
    /\ session.notices \in Nat
    /\ session.earlier \in Nat
    /\ last_op.name \in {"none", "start", "stop", "cleanup", "is_recording"}
    /\ last_op.arg.tool \in FfmpegTools
    /\ \A i \in 1..Len(recordings) :
           /\ recordings[i].pid \in Pids
           /\ recordings[i].suffix \in 0..MaxProcs
           /\ recordings[i].content \in {"raw", "fixed"}
    /\ \A i \in 1..Len(usernames) : usernames[i] \in StoredNames
    /\ Len(usernames) <= MaxNames
    /\ usernames_file.kind \in FileKinds /\ settings_file.kind \in FileKinds
    /\ store_op.op \in {"none", "load", "add", "remove", "toggle"}
    /\ store_op.w \in WriteOutcomes
    /\ store_op.side \in {"none", "names", "settings"}
    /\ store_op.after_add \in BOOLEAN

\* ------------------------------------------------------------------------
\* Reading the history of the session

\* _handle_status_change has returned and the loop is in its sleep.
PollDone == pc = "sleep" /\ ~exiting

\* Result of the poll completed last, of the one before, and of the one
\* before that ("none": there was no such poll in this session).
Cur == IF Len(hist) >= 1 THEN hist[Len(hist)] ELSE "none"
Prev == IF Len(hist) >= 2 THEN hist[Len(hist) - 1] ELSE "none"
Prev2 == IF Len(hist) >= 3 THEN hist[Len(hist) - 2] ELSE "none"

\* A step of the main flow out of position l (not the signal, not a
\* capture process ending by itself).
MainStepFrom(l) == pc = l /\ ~exiting /\ ~exiting' /\ pc' # pc

Running == {p \in Pids : proc[p] \in Alive}

\* ------------------------------------------------------------------------
\* Claims

\* C1: the entering-live branch fires on a poll if and only if the previous
\* status is none or OFFLINE and the current one is LIVE, and it never fires
\* on two polls without an OFFLINE result (or a session start) between them.
C1_EnteringLiveOnlyFromNoneOrOffline ==
    PollDone =>
        /\ (poll.fired = "entering") <=>
               (Prev \in {"none", "OFFLINE"} /\ Cur = "LIVE")
        /\ ~poll.refire

\* C2: the controller never holds a handle while another capture process
\* has been spawned, and at most one capture process launched by the
\* program is running.
C2_AtMostOneCapture ==
    /\ Cardinality(Running) <= 1
    /\ ~(active_process # NoProc /\ newproc # NoProc)

C2_Witness ==
    \E p \in Pids, q \in Pids :
        /\ p # q
        /\ active_process = p /\ proc[p] = "running"
        /\ proc[q] \in {"exited", "failed"}

\* C3: a poll that returns OFFLINE after a LIVE poll, with the controller
\* active, calls stop during that poll, and is_active() is false when the
\* poll's transition handling has finished.
C3_LeavingLiveStops ==
    (PollDone /\ Prev = "LIVE" /\ Cur = "OFFLINE" /\ poll.was_active) =>
        /\ "stop" \in poll.ops
        /\ ~is_recording(Ctl)
        /\ active_process = NoProc

C3_Witness ==
    /\ PollDone /\ Prev = "LIVE" /\ Cur = "OFFLINE" /\ poll.was_active
    /\ poll.ops = {"stop"}
    /\ active_process = NoProc

\* C4: a poll whose probe result is UNKNOWN, and more generally a poll that
\* takes neither the entering-live nor the leaving-live branch, calls no
\* controller operation and leaves the handle and the capture processes as
\* they were; the probe and the sleep of a poll leave them alone too.
C4_NoTransitionNoControllerAction ==
    [][ /\ ( /\ MainStepFrom("handle")
             /\ \/ current_status = "None"
                \/ /\ ~(last_status \in {"None", "False"} /\ current_status = "True")
                   /\ ~(last_status = "True" /\ current_status = "False") )
           => /\ pc' = "sleep"
              /\ poll'.ops = {}
              /\ UNCHANGED <<active_process, newproc, proc>>
        /\ ( MainStepFrom("probe") \/ MainStepFrom("backoff") \/ MainStepFrom("sleep") )
           => UNCHANGED <<active_process, newproc, proc>>
      ]_vars

C4_Witness ==
    /\ PollDone /\ Prev = "LIVE" /\ Cur = "UNKNOWN"
    /\ poll.was_active /\ poll.ops = {} /\ poll.fired = "other"
    /\ is_recording(Ctl)

\* C5: after every completed poll last_status is that poll's result, UNKNOWN
\* included, whichever branch fired and whether or not start or stop
\* succeeded; before the first poll of a session it is None.
C5_LastStatusIsLastResult ==
    /\ (Len(hist) > 0) => (StatusOf(last_status) = Cur)
    /\ (Len(hist) = 0) => (last_status = "None")
    /\ PollDone => (last_status = current_status)

C5_Witness ==
    /\ PollDone /\ "start" \in poll.ops /\ active_process = NoProc
    /\ last_status = "True" /\ Prev = "UNKNOWN"

\* C6: after a LIVE result followed by an UNKNOWN result, a LIVE result does
\* not fire the entering-live branch again: no endpoint resolution and no
\* start attempt on that poll.
C6_NoRefireAfterUnknown ==
    (PollDone /\ Prev2 = "LIVE" /\ Prev = "UNKNOWN" /\ Cur = "LIVE") =>
        /\ poll.fired # "entering"
        /\ poll.ops \cap {"resolve", "start"} = {}

\* C7: with a recording active after a LIVE result, an OFFLINE result that
\* follows an UNKNOWN result does not fire the leaving-live branch: stop is
\* not called and the capture process is still owned and running afterwards.
C7_NoStopAfterUnknown ==
    [][ ( /\ MainStepFrom("handle")
          /\ Prev = "LIVE" /\ Cur = "UNKNOWN" /\ current_status = "False"
          /\ is_recording(Ctl) )
        => /\ pc' = "sleep"
           /\ "stop" \notin poll'.ops
           /\ UNCHANGED <<active_process, proc>>
      ]_vars

C7_Witness ==
    /\ PollDone /\ Prev2 = "LIVE" /\ Prev = "UNKNOWN" /\ Cur = "OFFLINE"
    /\ poll.was_active /\ "stop" \notin poll.ops
    /\ is_recording(Ctl)

\* C8: when the shutdown signal cancels monitoring while a recording is
\* active, cleanup and through it stop has run before the process ends:
\* the handle is released and that capture process is no longer running.
C8_StopOnCancel ==
    (exiting /\ active_at_signal # NoProc) =>
        /\ cleanup_calls >= 1
        /\ active_process = NoProc
        /\ proc[active_at_signal] \notin Alive

C8_Witness ==
    /\ exiting /\ pc = "sl_sleep" /\ active_at_signal # NoProc
    /\ proc[active_at_signal] = "exited"

\* C9 as claimed: on a shutdown signal cleanup() is invoked exactly once
\* over the whole shutdown path.
C9_CleanupExactlyOnce ==
    (pc = "exited" /\ exiting) => (cleanup_calls = 1)

\* C9 as amended: a shutdown signal delivered while run's try block is
\* executing leads to exactly two invocations of cleanup(), one by the
\* signal handler and one by run's finally block, and no handle is held
\* when the process ends.
C9_CleanupTwice ==
    (pc = "exited" /\ exiting) => (cleanup_calls = 2 /\ active_process = NoProc)

C9_Witness ==
    /\ pc = "exited" /\ exiting /\ cleanup_calls = 2
    /\ active_at_signal # NoProc

\* C10: under every interleaving of the shutdown signal with start and stop
\* the program exits with no capture process it launched still running.
C10_NoOrphanAtExit ==
    (pc = "exited") => (Running = {})

\* ------------------------------------------------------------------------
\* Reading the history of calls on the controller

\* This step is a call of the operation name on the controller.
CallStep(name) == last_op'.tick # last_op.tick /\ last_op'.name = name

\* C11: a stop that follows a stop, and a stop that finds no handle, is a
\* no-op: the handle and every capture process are as they were, and no
\* terminate or kill request, no collection of diagnostics and no fixup is
\* made.
C11_StopIdempotent ==
    [][ ( /\ CallStep("stop")
          /\ (last_op.name = "stop" \/ active_process = NoProc) )
        => /\ active_process' = NoProc
           /\ proc' = proc
           /\ events' = <<>>
      ]_vars

C11_Witness ==
    /\ last_op.name = "stop" /\ last_op.after_stop
    /\ last_op.handle = NoProc
    /\ events = <<>>

\* C12: after stop has returned no handle is held, so that is_active is
\* false, whichever path stop took: graceful termination, kill after the
\* timeout, a process that had exited, an exception inside stop.
C12_StopReleasesHandle ==
    last_op.name = "stop" => active_process = NoProc

C12_Witness ==
    /\ last_op.name = "stop" /\ last_op.handle # NoProc
    /\ proc[last_op.handle] = "garbled"
    /\ events = <<"communicate">>

ProbeDone == pc = "handle" /\ ~exiting

\* C14: a probe makes at most 3 attempts; it returns the result of the first
\* attempt that succeeds, without a further attempt; it returns UNKNOWN
\* exactly when 3 attempts have failed; a failed attempt never ends the
\* probe with anything but a later attempt or UNKNOWN.
C14_ProbeAtMostThreeAttempts ==
    /\ probe_log.fails <= 3
    /\ pc \in {"probe", "backoff"} => attempt <= 2
    /\ ProbeDone =>
         /\ (current_status = "None") <=> (probe_log.fails = 3)
         /\ current_status # "None" =>
                (attempt = probe_log.fails /\ probe_log.fails <= 2)

C14_Witness ==
    /\ ProbeDone /\ current_status = "None"
    /\ probe_log.fails = 3 /\ attempt = 2

\* C15: a probe sleeps once after each failed attempt that another attempt
\* follows: k failures and then a success give k sleeps, three failures give
\* 2 sleeps, and the sleep after the attempt of index i has base 2^i
\* seconds, 1 and then 2.
C15_BackoffSleeps ==
    ProbeDone =>
        probe_log.sleeps =
            IF probe_log.fails = 0 THEN <<>>
            ELSE IF probe_log.fails = 1 THEN <<1>>
            ELSE <<1, 2>>

C15_Witness ==
    /\ ProbeDone /\ probe_log.fails = 3 /\ Len(probe_log.sleeps) = 2

\* C16: endpoint resolution and start are attempted only by a poll on which
\* the entering-live branch fires, once each at most, so that a failed
\* attempt is not repeated by the polls that follow while the results stay
\* LIVE; the monitor goes on polling after the failure.
C16_OneStartPerEnteringLive ==
    PollDone =>
        /\ poll.resolves <= 1
        /\ poll.starts <= poll.resolves
        /\ poll.resolves > 0 => (Cur = "LIVE" /\ Prev # "LIVE")

C16_Witness ==
    /\ PollDone /\ Len(hist) = 2 /\ Prev = "LIVE" /\ Cur = "LIVE"
    /\ recording_enabled /\ session.enabled_at_start
    /\ poll.resolves = 0 /\ poll.starts = 0
    /\ active_process = NoProc /\ \A p \in Pids : proc[p] = "unborn"

\* C17: the entering-live branch acts on the value the setting has when the
\* poll is handled, also after the setting was changed during the session:
\* it goes on to resolve the endpoint exactly when recording is enabled at
\* that moment and no recording is active.
C17_SettingReadAtTransition ==
    [][ ( /\ MainStepFrom("handle") /\ pc' # "menu"
          /\ last_status \in {"None", "False"} /\ current_status = "True" )
        => /\ poll'.enabled = recording_enabled
           /\ (pc' = "resolve") <=> (recording_enabled /\ ~is_recording(Ctl))
      ]_vars

C17_Witness ==
    /\ pc = "resolve" /\ ~exiting
    /\ ~session.enabled_at_start /\ session.notices = 1
    /\ recording_enabled /\ poll.enabled

\* C18: a session emits the notice that recording is disabled once at
\* most, and a poll emits it only when the entering-live branch fires with
\* recording disabled; a later session emits it again.
C18_NoticeOncePerSession ==
    /\ session.notices <= 1
    /\ (PollDone /\ poll.notice) =>
           (Cur = "LIVE" /\ Prev # "LIVE" /\ ~poll.enabled)

C18_Witness ==
    /\ PollDone /\ session.index = 2 /\ session.earlier = 1
    /\ session.notices = 1 /\ poll.notice

\* C19 as stated: when the first poll of a session returns LIVE with
\* recording enabled and the endpoint is resolved, the entering-live branch
\* fires, start is called and a recording is active after the poll.
C19_FirstPollLiveRecords ==
    (PollDone /\ Len(hist) = 1 /\ Cur = "LIVE" /\ recording_enabled /\ poll.url)
        => /\ poll.fired = "entering"
           /\ poll.starts = 1
           /\ active_process # NoProc /\ proc[active_process] \in Alive

\* C19, amended: when the first poll of a session returns LIVE with
\* recording enabled, the entering-live branch fires and resolves the
\* endpoint, start is called when a URL is returned, and a recording is
\* active after the poll exactly when start launched a capture process that
\* is still running.
C19_FirstPollLiveStarts ==
    (PollDone /\ Len(hist) = 1 /\ Cur = "LIVE" /\ recording_enabled)
        => /\ poll.fired = "entering"
           /\ poll.resolves = 1
           /\ poll.url => poll.starts = 1
           /\ (active_process # NoProc /\ proc[active_process] \in Alive)
                  <=> (poll.launched # NoProc /\ proc[poll.launched] \in Alive)

C19_Witness ==
    /\ PollDone /\ Len(hist) = 1 /\ Cur = "LIVE" /\ recording_enabled
    /\ poll.url /\ poll.starts = 1
    /\ active_process # NoProc /\ proc[active_process] = "running"

\* C20: a stop that the leaving-live branch makes on a running capture
\* process runs the fixup, however the process ends.
C20_FixupAfterEveryStop ==
    (PollDone /\ Prev = "LIVE" /\ Cur = "OFFLINE" /\ "stop" \in poll.ops)
        => \E i \in 1..Len(events) : events[i] = "fix"

\* ------------------------------------------------------------------------
\* The fixup and the recordings directory (SpecCtl)
\* ------------------------------------------------------------------------

\* No file of the directory has a "_fixed" name.
NoTemp(dir) == \A i \in 1..Len(dir) : dir[i].suffix = 0

\* The directory with the content of its newest file repackaged.
Repackaged(dir) == [dir EXCEPT ![Len(dir)].content = "fixed"]

\* stop() has been called and has come to its call of the fixup.
StopFixed ==
    /\ last_op.name = "stop"
    /\ \E i \in 1..Len(events) : events[i] = "fix"

\* C21 (as stated): the fixup is all-or-nothing.  A stop() that finds a
\* directory without temporary files leaves it either with the newest file
\* repackaged under its own name or exactly as it was, and in neither case
\* with a "_fixed" file.
C21_FixupAllOrNothing ==
    [][(CallStep("stop") /\ NoTemp(recordings))
         => /\ NoTemp(recordings')
            /\ \/ recordings' = recordings
               \/ (recordings # <<>> /\ recordings' = Repackaged(recordings))]_vars

\* C22: a stop() whose fixup finds ffmpeg absent, or present and not
\* answering the version query, leaves every file of the directory as it
\* was, creates no temporary file and still releases the handle.
C22_NoToolNoChange ==
    [][(CallStep("stop") /\ StopFixed' /\ last_op'.arg.tool # "ok")
         => (recordings' = recordings /\ active_process' = NoProc)]_vars

C22_Witness ==
    /\ StopFixed /\ last_op.arg.tool = "broken"
    /\ last_op.handle # NoProc /\ active_process = NoProc
    /\ recordings # <<>> /\ latest_file(recordings).content = "raw"

\* ------------------------------------------------------------------------
\* start() and is_active() called on the controller (SpecCtl)
\* ------------------------------------------------------------------------

\* C23: start() picks the capture tool by a fixed priority: the primary
\* tool (streamlink) is the one launched whenever it is available, the
\* fallback (yt-dlp) only when the primary is absent and the fallback is
\* available, and when neither is available nothing is launched, false is
\* returned and no handle is held.
C23_ToolPriority ==
    last_op.name = "start" =>
        /\ last_op.arg.streamlink => last_op.arg.launched \in {"streamlink", "none"}
        /\ last_op.arg.launched = "streamlink" => last_op.arg.streamlink
        /\ last_op.arg.launched = "ytdlp" =>
               (~last_op.arg.streamlink /\ last_op.arg.ytdlp)
        /\ (~last_op.arg.streamlink /\ ~last_op.arg.ytdlp) =>
               /\ last_op.arg.launched = "none"
               /\ ~last_op.ret
               /\ active_process = NoProc

C23_Witness ==
    /\ last_op.name = "start" /\ last_op.arg.launched = "ytdlp"
    /\ last_op.arg.ytdlp /\ ~last_op.arg.streamlink
    /\ last_op.ret /\ active_process # NoProc

\* The capture process that the step launches.
Launched(p) == proc[p] = "unborn" /\ proc'[p] # "unborn"

\* C24 (as stated): a start() that has launched a capture process looks at
\* it before it returns, whichever tool it launched: it returns false and
\* holds no handle when the process has exited with a failure marker, and
\* returns true in every other case.
C24_LivenessCheckAlways ==
    [][\A p \in Pids :
         (CallStep("start") /\ Launched(p))
           => /\ \E i \in 1..Len(events') : events'[i] = "poll"
              /\ proc'[p] = "failed" => (~last_op'.ret /\ active_process' = NoProc)
              /\ proc'[p] # "failed" => last_op'.ret]_vars

\* C25: is_active() is true exactly when a handle is held and its process
\* has not exited.
C25_IsActive ==
    [][CallStep("is_recording")
         => (last_op'.ret <=>
               (active_process # NoProc /\ proc[active_process] \in {"running", "hung"}))]_vars

C25_Witness ==
    /\ last_op.name = "is_recording" /\ ~last_op.ret
    /\ last_op.handle # NoProc /\ active_process = last_op.handle
    /\ proc[active_process] \in Dead

\* ------------------------------------------------------------------------
\* get_stream_url
\* ------------------------------------------------------------------------

\* C26: the resolution of the endpoint makes one live-check and does not
\* try again; it gives the URL only when that check says live, and gives
\* none, without raising, when the check says not live or fails.
C26_ResolveSingleCheck ==
    poll.resolves > 0 =>
        /\ poll.checks = poll.resolves
        /\ poll.check \in {"True", "False", "raise"}
        /\ poll.url <=> poll.check = "True"
        /\ poll.check # "True" => "start" \notin poll.ops

C26_Witness ==
    /\ PollDone /\ poll.resolves = 1 /\ poll.checks = 1
    /\ poll.check = "raise" /\ ~poll.url

\* ------------------------------------------------------------------------
\* The loop of monitor_user and the failures inside a poll
\* ------------------------------------------------------------------------

Trimmed(u) == u # <<>> /\ u[1] # " " /\ u[Len(u)] # " "

LowerCase(u) == \A i \in 1..Len(u) : u[i] # "A"

NoDuplicates(list) == \A i, j \in 1..Len(list) : i # j => list[i] # list[j]

\* Empty, or blanks only.
Blank(raw) == \A i \in 1..Len(raw) : raw[i] = " "

\* C28: from an empty account store, after any sequence of add and remove
\* every stored name is trimmed, in lower case and not empty, and no name is
\* stored twice; an add of an empty or blank name, or of a name whose
\* trimmed lower-case form is stored already, returns false and changes
\* neither the list nor the file.
C28_StoredNamesNormalized ==
    [][/\ \A i \in 1..Len(usernames') :
              Trimmed(usernames'[i]) /\ LowerCase(usernames'[i])
       /\ NoDuplicates(usernames')
       /\ ( /\ store_op'.op = "add"
            /\ \/ Blank(store_op'.arg)
               \/ Contains(usernames, lower(strip(store_op'.arg))) )
          => /\ ~store_op'.ret
             /\ usernames' = usernames
             /\ usernames_file' = usernames_file]_vars

\* Two names are stored and the add of a padded upper-case spelling of one
\* of them has been refused.
C28_Witness ==
    /\ store_op.op = "add" /\ ~store_op.ret
    /\ Len(usernames) = 2
    /\ ~Blank(store_op.arg) /\ store_op.arg[1] = " "
    /\ ~Contains(usernames, store_op.arg)
    /\ Contains(usernames, lower(strip(store_op.arg)))

\* C29 (as stated): a load that finds the file of the account store
\* missing, unreadable or malformed gives the empty list and raises
\* nothing; the load does not create the file, and the first add that
\* succeeds does.
C29_LoadNeverRaises ==
    [][/\ (store_op'.op = "load" /\ usernames_file.kind # "object")
          => /\ ~store_op'.raised
             /\ usernames' = <<>>
             /\ usernames_file' = usernames_file
       /\ ( /\ store_op'.op = "add" /\ store_op'.ret /\ store_op'.w = "ok"
            /\ usernames_file.kind = "missing" )
          => usernames_file'.kind = "object"]_vars

\* C30: after an add, a remove or a toggle that changes the state, the
\* state in memory shows the change and the call has not raised; when the
\* write has succeeded a load of the file gives the state in memory.
C30_PersistedEqualsMemory ==
    [][/\ (store_op'.op = "add" /\ store_op'.ret)
          => usernames' = Append(usernames, lower(strip(store_op'.arg)))
       /\ (store_op'.op = "remove" /\ store_op'.ret)
          => /\ Len(usernames') = Len(usernames) - 1
             /\ ~Contains(usernames', lower(strip(store_op'.arg)))
       /\ (store_op'.op \in {"add", "remove"} /\ store_op'.ret)
          => /\ ~store_op'.raised
             /\ store_op'.w = "ok" =>
                    _load_usernames(usernames_file') =
                        [raised |-> FALSE, usernames |-> usernames']
       /\ store_op'.op = "toggle"
          => /\ recording_enabled' = ~recording_enabled
             /\ ~store_op'.raised
             /\ store_op'.w = "ok" =>
                    _load_settings(settings_file') = recording_enabled']_vars

\* The second name was added while the file could not be opened for
\* writing: the list has both names, the file the first.
C30_Witness ==
    /\ store_op.op = "add" /\ store_op.ret /\ store_op.w = "open_fails"
    /\ Len(usernames) = 2
    /\ usernames_file.kind = "object"
    /\ usernames_file.usernames = <<usernames[1]>>

\* ------------------------------------------------------------------------
\* stop() and cleanup() called on the controller (SpecCtl)
\* ------------------------------------------------------------------------

\* C31: a stop() that finds a process still running asks it to terminate
\* first and kills it only when it has not ended within the wait: in what
\* any call does to a process a kill comes right after a terminate request
\* and only for a process that outlasts the wait, and a process that ends
\* within the wait is not killed.
C31_KillOnlyAfterTimeout ==
    [][/\ \A i \in 1..Len(events') :
              ( /\ CallStep("start") \/ CallStep("stop") \/ CallStep("cleanup")
                /\ events'[i] = "kill" )
                  => /\ i > 1 /\ events'[i - 1] = "terminate"
                     /\ active_process # NoProc /\ proc[active_process] = "hung"
       /\ (CallStep("stop") /\ active_process # NoProc)
              => /\ proc[active_process] \in {"running", "hung"}
                     => events'[1] = "terminate"
                 /\ proc[active_process] = "running"
                     => events' = <<"terminate", "fix">>
                 /\ proc[active_process] = "hung"
                     => events' = <<"terminate", "kill">>]_vars

C31_Witness ==
    /\ last_op.name = "stop" /\ last_op.handle # NoProc
    /\ events = <<"terminate", "kill">>
    /\ proc[last_op.handle] = "exited" /\ active_process = NoProc

\* ------------------------------------------------------------------------
\* The Session Monitor and the capture process (Spec)
\* ------------------------------------------------------------------------

\* C32: the monitor never calls start() while a recording is active.  A
\* poll that takes the entering-live branch with a capture process still
\* running resolves no endpoint, launches nothing and leaves the handle and
\* the process as they were; and whenever the monitor enters
\* start_recording the handle it finds, if any, is of a process that has
\* exited.
C32_NoStartWhileActive ==
    [][/\ ( /\ MainStepFrom("handle")
            /\ last_status \in {"None", "False"} /\ current_status = "True"
            /\ active_process # NoProc /\ proc[active_process] \in {"running", "hung"} )
          => /\ pc' = "sleep"
             /\ poll'.ops = {}
             /\ UNCHANGED <<active_process, newproc, proc, events>>
       /\ ( MainStepFrom("resolve") /\ "start" \in poll'.ops )
          => /\ ~poll.was_active
             /\ active_process # NoProc =>
                    proc[active_process] \in {"exited", "failed", "garbled"}
             /\ \A i \in 1..Len(events') : events'[i] \notin {"terminate", "kill"}]_vars

\* The entering-live branch fired again with the recording still running
\* (LIVE, UNKNOWN, LIVE) and did nothing.
C32_Witness ==
    /\ PollDone /\ poll.fired = "entering" /\ poll.was_active
    /\ poll.enabled /\ poll.ops = {}
    /\ active_process # NoProc /\ proc[active_process] = "running"

\* ------------------------------------------------------------------------
\* start() called on the controller (SpecCtl)
\* ------------------------------------------------------------------------

\* C33 (as stated): a start() that returns false holds no handle, on
\* whichever path it failed, and is_active() is false after it; a start()
\* that returns true holds a handle.
C33_FalseReleasesHandle ==
    last_op.name = "start" =>
        /\ ~last_op.ret => active_process = NoProc
        /\ last_op.ret => active_process # NoProc

\* ------------------------------------------------------------------------
\* The life of a handle under run() (Spec)
\* ------------------------------------------------------------------------

\* The stop requests in what the controller did: terminate() on a process
\* still running, communicate() on one that had exited.
StopRequests(ev) == {i \in 1..Len(ev) : ev[i] \in {"terminate", "communicate"}}

\* The last stop in ev came to its call of the fixup.
StoppedAndFixed(ev) ==
    \E i \in StopRequests(ev) :
        /\ \A j \in StopRequests(ev) : j <= i
        /\ \E k \in (i + 1)..Len(ev) : ev[k] = "fix"

\* The step takes the handle from the controller, other than by the
\* liveness check of a start that returns false.
Releases ==
    /\ active_process # NoProc /\ active_process' # active_process
    /\ ~(pc = "sl_sleep" /\ pc' = "sleep")

\* C34 (as stated): every handle is released by a stop() that runs its
\* fixup, and none is held when the program has exited; a process that
\* exited on its own keeps its handle over the leaving-live poll and is
\* stopped by the next start or by the cleanup of the shutdown.
C34_HandleReleasedByStopAndFixup ==
    [][/\ Releases => (StopRequests(events') # {} /\ StoppedAndFixed(events'))
       /\ pc' = "exited" => active_process' = NoProc]_vars

\* C35: the capture process is not supervised between start and stop.  A
\* poll that returns LIVE after a LIVE poll calls no controller operation,
\* launches nothing and leaves the handle where it is, also when the capture
\* process has exited on its own; a capture process is launched only by a
\* poll on which the entering-live branch fires.
C35_NoRestartWhileLive ==
    [][/\ ( /\ MainStepFrom("handle")
            /\ last_status = "True" /\ current_status = "True" )
          => /\ pc' = "sleep"
             /\ poll'.fired = "other" /\ poll'.ops = {}
             /\ UNCHANGED <<active_process, newproc, proc, events>>
       /\ \A p \in Pids :
              (proc[p] = "unborn" /\ proc'[p] # "unborn")
                  => /\ poll.fired = "entering" /\ "start" \in poll.ops
                     /\ last_status \in {"None", "False"} /\ current_status = "True"]_vars

\* Two LIVE polls in a row, the capture process of the first has exited and
\* the second has left its handle alone.
C35_Witness ==
    /\ PollDone /\ Prev = "LIVE" /\ Cur = "LIVE"
    /\ poll.ops = {} /\ poll.fired = "other"
    /\ active_process # NoProc /\ proc[active_process] \in {"exited", "failed"}
    /\ Cardinality({p \in Pids : proc[p] # "unborn"}) = 1

\* ------------------------------------------------------------------------
\* The file that the fixup takes (SpecCtl)
\* ------------------------------------------------------------------------

\* The files of dir that capture processes other than p wrote.
RECURSIVE FilesOfOthers(_, _)
FilesOfOthers(dir, p) ==
    IF dir = <<>> THEN <<>>
    ELSE IF Head(dir).pid = p THEN FilesOfOthers(Tail(dir), p)
    ELSE <<Head(dir)>> \o FilesOfOthers(Tail(dir), p)

\* C36 (as stated): the file that stop() repackages is the output file of
\* the recording being stopped.  A stop() leaves the files that earlier
\* recordings wrote as they were, whether or not the recording it stops has
\* written a file that the fixup can find.
C36_FixupOwnFileOnly ==
    [][(CallStep("stop") /\ active_process # NoProc)
         => FilesOfOthers(recordings', active_process) =
                FilesOfOthers(recordings, active_process)]_vars

\* ------------------------------------------------------------------------
\* The start of a session (SpecSessions)
\* ------------------------------------------------------------------------

\* C37: every session starts from a fresh Session State.  When monitor_user
\* is entered last_status is None and the notice flag is false, whatever
\* the session before left; the first poll of a session, when it returns
\* LIVE, takes the entering-live branch as an initial detection, and shows
\* the notice when recording is disabled.
C37_FreshSessionState ==
    [][/\ (pc = "menu" /\ pc' = "probe")
          => (last_status' = "None" /\ ~recording_disabled_shown')
       /\ ( /\ MainStepFrom("handle") /\ pc' # "menu"
            /\ Len(hist) = 0 /\ current_status = "True" )
          => /\ last_status = "None"
             /\ poll'.fired = "entering"
             /\ ~recording_enabled => poll'.notice]_vars

\* The second session found last_status LIVE and the notice shown, and its
\* first poll, LIVE again, has fired the branch and shown the notice.
C37_Witness ==
    /\ PollDone /\ session.index = 2 /\ session.earlier = 1
    /\ Len(hist) = 1 /\ Cur = "LIVE"
    /\ poll.fired = "entering" /\ poll.notice

\* ------------------------------------------------------------------------
\* cleanup() called on the controller (SpecCtl)
\* ------------------------------------------------------------------------

\* C38: cleanup() does what stop() does.  From every state of the
\* controller a call of cleanup() leaves the handle, the capture processes
\* and the requests made to them as a call of stop() would, and the
\* directory as the fixup of that stop() can leave it; with no handle it
\* changes nothing.
C38_CleanupIsStop ==
    [][CallStep("cleanup")
         => /\ active_process' = stop_recording(AtCall).active_process
            /\ proc' = stop_recording(AtCall).proc
            /\ events' = stop_recording(AtCall).events
            /\ \E tool \in FfmpegTools, out \in FfmpegOutcomes :
                   recordings' = Fixed(stop_recording(AtCall), tool, out)
            /\ active_process = NoProc
                   => /\ UNCHANGED <<active_process, proc, recordings>>
                      /\ events' = <<>>]_vars

\* A cleanup() that found a running process: terminated, the file
\* repackaged, the handle released.
C38_Witness ==
    /\ last_op.name = "cleanup" /\ last_op.handle # NoProc
    /\ active_process = NoProc /\ proc[last_op.handle] = "exited"
    /\ events = <<"terminate", "fix">>
    /\ recordings # <<>> /\ latest_file(recordings).content = "fixed"

\* ------------------------------------------------------------------------
\* remove, and add followed by remove (SpecStore)
\* ------------------------------------------------------------------------

====
